---- MODULE Spec2Model ----
(***************************************************************************)
(* Model of the Logseq API client (src/logseq_mcp/client/logseq_client.py) *)
(* and of the tool wrappers built on it (tools/pages.py, tools/blocks.py). *)
(*                                                                         *)
(* JSON values and Python values are encoded uniformly as records          *)
(*   [t |-> type tag, v |-> scalar text, m |-> mapping, l |-> list items]  *)
(* so that values of different Python types can be compared.               *)
(***************************************************************************)
EXTENDS Integers, Sequences, FiniteSets, TLC

VARIABLES
    env,        \* process environment read by the constructor
    ctor,       \* arguments the constructor was called with
    api_url,    \* self.api_url
    token,      \* self.token
    op,         \* name of the last facade operation called ("none" at start)
    call,       \* the arguments of that call
    request,    \* the last HTTP POST issued: url, headers, method, args
    http,       \* what the transport did with that POST
    raw,        \* the value call_api returned to the facade operation
    result,     \* the value the facade operation returned to its caller
    raised,     \* TRUE when an exception escaped the operation
    nops,       \* number of facade operations performed
    ncalls,     \* number of call_api invocations
    nposts      \* number of HTTP POSTs issued

vars == <<env, ctor, api_url, token, op, call, request, http, raw, result,
          raised, nops, ncalls, nposts>>

\* Bound on the length of a run (number of facade operations).
MaxOps == 2

(***************************************************************************)
(* Values                                                                  *)
(***************************************************************************)
EmptyMap == [k \in {} |-> 0]

JNull     == [t |-> "null", v |-> "",  m |-> EmptyMap, l |-> <<>>]
JStr(s)   == [t |-> "str",  v |-> s,   m |-> EmptyMap, l |-> <<>>]
JNum(s)   == [t |-> "num",  v |-> s,   m |-> EmptyMap, l |-> <<>>]
JBool(b)  == [t |-> "bool", v |-> IF b THEN "true" ELSE "false",
              m |-> EmptyMap, l |-> <<>>]
JList(xs) == [t |-> "list", v |-> "",  m |-> EmptyMap, l |-> xs]
JDict(f)  == [t |-> "dict", v |-> "",  m |-> f,        l |-> <<>>]

IsNone(x) == x.t = "null"
IsList(x) == x.t = "list"
IsDict(x) == x.t = "dict"
Has(x, k) == k \in DOMAIN x.m
\* dict.get(k, default)
Get(x, k, default) == IF Has(x, k) THEN x.m[k] ELSE default

\* Python truth value of an object (used by `x or y` and `if x:`)
Truthy(x) ==
    CASE x.t = "null" -> FALSE
      [] x.t = "str"  -> x.v # ""
      [] x.t = "num"  -> x.v # "0"
      [] x.t = "bool" -> x.v = "true"
      [] x.t = "list" -> x.l # <<>>
      [] x.t = "dict" -> DOMAIN x.m # {}

\* x or y
Or(x, y) == IF Truthy(x) THEN x ELSE y

(***************************************************************************)
(* Construction                                                            *)
(***************************************************************************)
DefaultApiUrl == JStr("http://localhost:12315")

\* os.getenv(name, default)
GetEnv(e, name, default) == IF name \in DOMAIN e THEN e[name] ELSE default

\* LogseqAPIClient.__init__
InitApiUrl(c, e) == Or(c.api_url, GetEnv(e, "LOGSEQ_API_URL", DefaultApiUrl))
InitToken(c, e)  == Or(c.token, GetEnv(e, "LOGSEQ_TOKEN", JNull))

\* LogseqAPIClient._get_headers
GetHeaders(tok) ==
    IF Truthy(tok)
    THEN ("Content-Type" :> "application/json")
         @@ ("Authorization" :> ("Bearer " \o tok.v))
    ELSE ("Content-Type" :> "application/json")

(***************************************************************************)
(* Transport                                                               *)
(***************************************************************************)
\* Exception classes derived from requests.exceptions.RequestException that
\* requests.post and Response.raise_for_status raise.
RequestException == {"ConnectionError", "Timeout", "HTTPError"}

\* str(e) for an exception of class e
ExcStr(e) == JStr(e \o ": request failed")

Unauthorized401 ==
    JDict(("success" :> JBool(FALSE))
       @@ ("error" :> JStr("401 Unauthorized: Please provide a valid token in LOGSEQ_API_TOKEN environment variable")))

Sentinel(e) == JDict(("success" :> JBool(FALSE)) @@ ("error" :> ExcStr(e)))

\* Response.raise_for_status: HTTPError for 4xx and 5xx
RaiseForStatus(status) == status >= 400 /\ status < 600

\* The body of the try block of call_api, given what the transport does (o):
\* the exception it ends with ("none" when it returns) and the value returned.
TryPost(o) ==
    IF o.exc # "none" THEN [exc |-> o.exc, value |-> JNull]
    ELSE IF o.status = 401 THEN [exc |-> "none", value |-> Unauthorized401]
    ELSE IF RaiseForStatus(o.status) THEN [exc |-> "HTTPError", value |-> JNull]
    ELSE [exc |-> "none", value |-> o.body]

\* Variant: an except clause naming only ConnectionError
CaughtConnectionOnly == {"ConnectionError"}

\* The classes the except clause of call_api catches
Caught == RequestException

\* Variant: call_api that repeats the POST once when the first attempt fails
call_api_retrying(method, args, o) ==
    LET post == [url |-> api_url.v \o "/api", headers |-> GetHeaders(token),
                 method |-> method, args |-> Or(args, JList(<<>>))]
        t    == TryPost(o)
    IN  IF t.exc = "none" /\ o.status # 401
        THEN [posts |-> <<post>>, raised |-> FALSE, value |-> t.value]
        ELSE IF t.exc = "none"
        THEN [posts |-> <<post, post>>, raised |-> FALSE, value |-> t.value]
        ELSE [posts |-> <<post, post>>, raised |-> FALSE, value |-> Sentinel(t.exc)]

\* LogseqAPIClient.call_api: the POSTs issued, whether an exception escapes,
\* and the value returned
call_api(method, args, o) ==
    LET url     == api_url.v \o "/api"
        headers == GetHeaders(token)
        data    == [method |-> method, args |-> Or(args, JList(<<>>))]
        post    == [url |-> url, headers |-> headers,
                    method |-> data.method, args |-> data.args]
        t       == TryPost(o)
    IN  IF t.exc = "none"
        THEN [posts |-> <<post>>, raised |-> FALSE, value |-> t.value]
        ELSE IF t.exc \in Caught
        THEN [posts |-> <<post>>, raised |-> FALSE, value |-> Sentinel(t.exc)]
        ELSE [posts |-> <<post>>, raised |-> TRUE, value |-> JNull]

(***************************************************************************)
(* Facade operations.  Each takes its Python arguments and o, what the     *)
(* transport does with the POST, and yields                                *)
(*   invokes: the call_api invocations made, in order                      *)
(*   raised:  whether an exception escapes                                 *)
(*   ret:     the value returned                                           *)
(***************************************************************************)
Returned(r, value) ==
    [invokes |-> <<r>>, raised |-> r.raised,
     ret |-> IF r.raised THEN JNull ELSE value]

\* Variant: a mutation tail that turns an error mapping into None
UnwrapAbsorbing(response) ==
    IF IsDict(response) /\ Has(response, "result")
    THEN Get(response, "result", JNull)
    ELSE IF IsDict(response) /\ Has(response, "error") THEN JNull
    ELSE response

\* `isinstance(response, dict) and "result" in response` then
\* response.get("result"), else response: the tail shared by the mutations
Unwrap(response) ==
    IF IsDict(response) /\ Has(response, "result")
    THEN Get(response, "result", JNull)
    ELSE response

\* Variant: a list tail that hands a mapping without `result` to the caller
ListOrResultSurfacing(response) ==
    IF IsList(response) THEN response
    ELSE IF IsDict(response) THEN Get(response, "result", response)
    ELSE JList(<<>>)

\* the tail shared by get_all_pages, get_page_blocks, get_page_linked_references
ListOrResult(response) ==
    IF IsList(response) THEN response
    ELSE IF IsDict(response) THEN Get(response, "result", JList(<<>>))
    ELSE JList(<<>>)

\* params = [a, ...]; if properties: params.append(properties)
WithProperties(params, properties) ==
    IF Truthy(properties) THEN Append(params, properties) ELSE params

get_current_graph(o) ==
    LET r == call_api("logseq.App.getCurrentGraph", JNull, o)
    IN  Returned(r, r.value)

get_all_pages(o) ==
    LET r == call_api("logseq.Editor.getAllPages", JNull, o)
    IN  Returned(r, ListOrResult(r.value))

get_page(page_name, o) ==
    LET r == call_api("logseq.Editor.getPage", JList(<<page_name>>), o)
        response == r.value
    IN  Returned(r,
          IF IsNone(response) THEN JNull
          ELSE IF IsDict(response)
               THEN IF Has(response, "result") THEN Get(response, "result", JNull)
                    ELSE IF Has(response, "error") THEN JNull
                    ELSE response
               ELSE response)

get_page_blocks(page_name, o) ==
    LET r == call_api("logseq.Editor.getPageBlocksTree", JList(<<page_name>>), o)
    IN  Returned(r, ListOrResult(r.value))

\* Variant: search_blocks testing `result` before `blocks`
search_blocks_result_first(query, o) ==
    LET r == call_api("logseq.Editor.search", JList(<<query>>), o)
        response == r.value
    IN  Returned(r,
          IF IsNone(response) THEN JList(<<>>)
          ELSE IF IsDict(response) /\ Has(response, "result")
               THEN Get(response, "result", JList(<<>>))
          ELSE IF IsDict(response) /\ Has(response, "blocks")
               THEN Get(response, "blocks", JList(<<>>))
          ELSE IF IsDict(response) /\ Has(response, "error")
               THEN JList(<<>>)
          ELSE IF IsList(response) THEN response
          ELSE JList(<<>>))

search_blocks(query, o) ==
    LET r == call_api("logseq.Editor.search", JList(<<query>>), o)
        response == r.value
    IN  Returned(r,
          IF IsNone(response) THEN JList(<<>>)
          ELSE IF IsDict(response) /\ Has(response, "blocks")
               THEN Get(response, "blocks", JList(<<>>))
          ELSE IF IsDict(response) /\ Has(response, "result")
               THEN Get(response, "result", JList(<<>>))
          ELSE IF IsDict(response) /\ Has(response, "error")
               THEN JList(<<>>)
          ELSE IF IsList(response) THEN response
          ELSE JList(<<>>))

create_page(page_name, properties, o) ==
    LET params == WithProperties(<<page_name>>, properties)
        r == call_api("logseq.Editor.createPage", JList(params), o)
    IN  Returned(r, Unwrap(r.value))

create_block(page_name, content, properties, o) ==
    LET params == WithProperties(<<page_name, content>>, properties)
        r == call_api("logseq.Editor.appendBlockInPage", JList(params), o)
    IN  Returned(r, Unwrap(r.value))

update_block(block_id, content, properties, o) ==
    LET params == WithProperties(<<block_id, content>>, properties)
        r == call_api("logseq.Editor.updateBlock", JList(params), o)
    IN  Returned(r, Unwrap(r.value))

get_block(block_id, o) ==
    LET r == call_api("logseq.Editor.getBlock", JList(<<block_id>>), o)
        response == r.value
    IN  Returned(r,
          IF IsNone(response) THEN JNull
          ELSE IF IsDict(response)
               THEN IF Has(response, "error") THEN JNull
                    ELSE IF Has(response, "result") THEN Get(response, "result", JNull)
                    ELSE response
               ELSE response)

get_block_properties(block_id, o) ==
    LET r == call_api("logseq.Editor.getBlockProperties", JList(<<block_id>>), o)
        response == r.value
    IN  Returned(r,
          IF IsDict(response) /\ Has(response, "result")
          THEN Get(response, "result", JDict(EmptyMap))
          ELSE IF IsDict(response) THEN response ELSE JDict(EmptyMap))

get_page_linked_references(page_name, o) ==
    LET r == call_api("logseq.Editor.getPageLinkedReferences", JList(<<page_name>>), o)
    IN  Returned(r, ListOrResult(r.value))

delete_page(page_name, o) ==
    LET r == call_api("logseq.Editor.deletePage", JList(<<page_name>>), o)
    IN  Returned(r, Unwrap(r.value))

remove_block(block_id, o) ==
    LET r == call_api("logseq.Editor.removeBlock", JList(<<block_id>>), o)
    IN  Returned(r, Unwrap(r.value))

\* Variant: insert_block passing the flag on as a trailing argument
insert_block_flag_as_arg(parent_block_id, content, properties, before, o) ==
    LET params == Append(WithProperties(<<parent_block_id, content>>, properties),
                         JBool(before))
        method == IF before THEN "logseq.Editor.prependBlock"
                  ELSE "logseq.Editor.insertBlock"
        r == call_api(method, JList(params), o)
    IN  Returned(r, Unwrap(r.value))

insert_block(parent_block_id, content, properties, before, o) ==
    LET params == WithProperties(<<parent_block_id, content>>, properties)
        method == IF before THEN "logseq.Editor.prependBlock"
                  ELSE "logseq.Editor.insertBlock"
        r == call_api(method, JList(params), o)
    IN  Returned(r, Unwrap(r.value))

\* Variant: move_block sending its arguments positionally
move_block_positional(block_id, target_block_id, as_child, o) ==
    LET r == call_api("logseq.Editor.moveBlock",
                      JList(<<block_id, target_block_id, JBool(as_child)>>), o)
    IN  Returned(r, Unwrap(r.value))

move_block(block_id, target_block_id, as_child, o) ==
    LET method == "logseq.Editor.moveBlock"
        move_params == JDict(("srcUUID" :> block_id)
                          @@ ("targetUUID" :> target_block_id)
                          @@ ("isChild" :> JBool(as_child)))
        r == call_api(method, JList(<<move_params>>), o)
    IN  Returned(r, Unwrap(r.value))

(***************************************************************************)
(* Inputs                                                                  *)
(***************************************************************************)
PageNames  == {JStr("Home")}
BlockIds   == {JStr("b1")}
TargetIds  == {JStr("b2")}
Contents   == {JStr("text")}
Queries    == {JStr("term")}
Properties == {JNull, JDict(EmptyMap), JDict("k" :> JStr("v"))}

Ctors == {[api_url |-> JNull, token |-> JNull],
          [api_url |-> JStr("http://graph:8080"), token |-> JStr("secret")]}
Envs  == {EmptyMap,
          ("LOGSEQ_API_URL" :> JStr("http://env:12315"))
            @@ ("LOGSEQ_TOKEN" :> JStr("envtoken"))}

\* JSON values the remote endpoint may send
Item     == JDict("id" :> JNum("1"))
ErrorVal == JStr("boom")
Keys     == {"result", "blocks", "error"}
\* the values each key may carry
Payloads(k) ==
    CASE k = "result" -> {JNull, JList(<<Item>>), Item, JStr("s")}
      [] k = "blocks" -> {JNull, JList(<<Item>>)}
      [] k = "error"  -> {ErrorVal}
AllPayloads == UNION {Payloads(k) : k \in Keys}
Mappings ==
    {f \in UNION {[K -> AllPayloads] : K \in (SUBSET Keys) \ {{}}} :
        \A k \in DOMAIN f : f[k] \in Payloads(k)}
Bodies ==
    {JNull, JList(<<>>), JList(<<Item>>), JStr("s"), Item}
      \cup {JDict(f) : f \in Mappings}

\* What the transport may do with one POST
Outcomes ==
    {[exc |-> "none", status |-> 200, body |-> b] : b \in Bodies}
      \cup {[exc |-> "none", status |-> st, body |-> JNull] : st \in {401, 500}}
      \cup {[exc |-> e, status |-> 0, body |-> JNull] : e \in {"ConnectionError", "Timeout"}}

(***************************************************************************)
(* State machine                                                           *)
(***************************************************************************)
NoRequest == [url |-> "", headers |-> EmptyMap, method |-> "", args |-> JNull]
NoOutcome == [exc |-> "none", status |-> 0, body |-> JNull]

Init ==
    /\ ctor \in Ctors
    /\ env \in Envs
    /\ api_url = InitApiUrl(ctor, env)
    /\ token = InitToken(ctor, env)
    /\ op = "none"
    /\ call = [op |-> "none"]
    /\ request = NoRequest
    /\ http = NoOutcome
    /\ raw = JNull
    /\ result = JNull
    /\ raised = FALSE
    /\ nops = 0
    /\ ncalls = 0
    /\ nposts = 0

\* The sum of the POSTs of a sequence of call_api invocations
RECURSIVE PostCount(_)
PostCount(invokes) ==
    IF invokes = <<>> THEN 0
    ELSE Len(Head(invokes).posts) + PostCount(Tail(invokes))

\* One call of a tool: the client method runs to completion against the
\* transport outcome o, and the tool returns what the method returns.
Record(c, o, f) ==
    LET last == f.invokes[Len(f.invokes)]
    IN  /\ op' = c.op
        /\ call' = c
        /\ http' = o
        /\ request' = IF last.posts = <<>> THEN request
                      ELSE last.posts[Len(last.posts)]
        /\ raw' = last.value
        /\ result' = f.ret
        /\ raised' = f.raised
        /\ nops' = nops + 1
        /\ ncalls' = ncalls + Len(f.invokes)
        /\ nposts' = nposts + PostCount(f.invokes)
        /\ UNCHANGED <<env, ctor, api_url, token>>

GetAllPages ==
    /\ nops < MaxOps
    /\ \E o \in Outcomes :
         Record([op |-> "get_all_pages"], o, get_all_pages(o))

GetPage ==
    /\ nops < MaxOps
    /\ \E name \in PageNames, o \in Outcomes :
         Record([op |-> "get_page", name |-> name], o, get_page(name, o))

CreatePage ==
    /\ nops < MaxOps
    /\ \E name \in PageNames, properties \in Properties, o \in Outcomes :
         Record([op |-> "create_page", name |-> name, properties |-> properties],
                o, create_page(name, properties, o))

DeletePage ==
    /\ nops < MaxOps
    /\ \E name \in PageNames, o \in Outcomes :
         Record([op |-> "delete_page", name |-> name], o, delete_page(name, o))

GetPageLinkedReferences ==
    /\ nops < MaxOps
    /\ \E page_name \in PageNames, o \in Outcomes :
         Record([op |-> "get_page_linked_references", page_name |-> page_name],
                o, get_page_linked_references(page_name, o))

GetPageBlocks ==
    /\ nops < MaxOps
    /\ \E page_name \in PageNames, o \in Outcomes :
         Record([op |-> "get_page_blocks", page_name |-> page_name],
                o, get_page_blocks(page_name, o))

GetBlock ==
    /\ nops < MaxOps
    /\ \E block_id \in BlockIds, o \in Outcomes :
         Record([op |-> "get_block", block_id |-> block_id],
                o, get_block(block_id, o))

CreateBlock ==
    /\ nops < MaxOps
    /\ \E page_name \in PageNames, content \in Contents,
          properties \in Properties, o \in Outcomes :
         Record([op |-> "create_block", page_name |-> page_name,
                 content |-> content, properties |-> properties],
                o, create_block(page_name, content, properties, o))

InsertBlock ==
    /\ nops < MaxOps
    /\ \E parent_block_id \in BlockIds, content \in Contents,
          properties \in Properties, before \in BOOLEAN, o \in Outcomes :
         Record([op |-> "insert_block", parent_block_id |-> parent_block_id,
                 content |-> content, properties |-> properties,
                 before |-> before],
                o, insert_block(parent_block_id, content, properties, before, o))

UpdateBlock ==
    /\ nops < MaxOps
    /\ \E block_id \in BlockIds, content \in Contents,
          properties \in Properties, o \in Outcomes :
         Record([op |-> "update_block", block_id |-> block_id,
                 content |-> content, properties |-> properties],
                o, update_block(block_id, content, properties, o))

MoveBlock ==
    /\ nops < MaxOps
    /\ \E block_id \in BlockIds, target_block_id \in TargetIds,
          as_child \in BOOLEAN, o \in Outcomes :
         Record([op |-> "move_block", block_id |-> block_id,
                 target_block_id |-> target_block_id, as_child |-> as_child],
                o, move_block(block_id, target_block_id, as_child, o))

RemoveBlock ==
    /\ nops < MaxOps
    /\ \E block_id \in BlockIds, o \in Outcomes :
         Record([op |-> "remove_block", block_id |-> block_id],
                o, remove_block(block_id, o))

SearchBlocks ==
    /\ nops < MaxOps
    /\ \E query \in Queries, o \in Outcomes :
         Record([op |-> "search_blocks", query |-> query],
                o, search_blocks(query, o))

GetCurrentGraph ==
    /\ nops < MaxOps
    /\ \E o \in Outcomes :
         Record([op |-> "get_current_graph"], o, get_current_graph(o))

GetBlockProperties ==
    /\ nops < MaxOps
    /\ \E block_id \in BlockIds, o \in Outcomes :
         Record([op |-> "get_block_properties", block_id |-> block_id],
                o, get_block_properties(block_id, o))

Next ==
    \/ GetAllPages
    \/ GetPage
    \/ CreatePage
    \/ DeletePage
    \/ GetPageLinkedReferences
    \/ GetPageBlocks
    \/ GetBlock
    \/ CreateBlock
    \/ InsertBlock
    \/ UpdateBlock
    \/ MoveBlock
    \/ RemoveBlock
    \/ SearchBlocks
    \/ GetCurrentGraph
    \/ GetBlockProperties

Spec == Init /\ [][Next]_vars

(***************************************************************************)
(* Properties                                                              *)
(***************************************************************************)
ListOps      == {"get_all_pages", "get_page_blocks", "get_page_linked_references"}
SingleOps    == {"get_page", "get_block"}
MutationOps  == {"create_page", "delete_page", "create_block", "update_block",
                 "insert_block", "move_block", "remove_block"}

\* the last operation returned a value to its caller
Completed == op # "none" /\ ~raised

\* the POST of the last operation met a transport failure
TransportFailed ==
    op # "none" /\ (http.exc # "none" \/ http.status = 401 \/ RaiseForStatus(http.status))

\* {success: false, error: <message>}
IsSentinel(x) ==
    /\ IsDict(x)
    /\ DOMAIN x.m = {"success", "error"}
    /\ x.m["success"] = JBool(FALSE)
    /\ x.m["error"].t = "str"
    /\ x.m["error"].v # ""

HasResult(x) == IsDict(x) /\ Has(x, "result")

\* C1: every list-shaped operation and search_blocks returns a list, and
\* get_page and get_block return a mapping or None, whatever call_api returned.
C1_DeclaredShape ==
    Completed =>
        /\ (op \in ListOps \cup {"search_blocks"} => IsList(result))
        /\ (op \in SingleOps => IsDict(result) \/ IsNone(result))

\* C2: a list-shaped operation returns a bare list as it is, and for a mapping
\* with key `result` returns that value when it is a list and [] otherwise.
C2_ListOrEmpty ==
    (Completed /\ op \in ListOps) =>
        /\ (IsList(raw) => result = raw)
        /\ (HasResult(raw) =>
              result = IF IsList(raw.m["result"]) THEN raw.m["result"]
                       ELSE JList(<<>>))

\* C3: a list-shaped operation returns [] whenever call_api returned a mapping
\* without key `result` (an error mapping, the failure sentinel), None, or
\* any other value that is neither a list nor a mapping.
C3_FailuresAbsorbed ==
    (Completed /\ op \in ListOps /\ ~IsList(raw) /\ ~HasResult(raw)) =>
        result = JList(<<>>)

C3_Witness ==
    /\ Completed /\ op \in ListOps
    /\ http.exc = "ConnectionError"
    /\ IsSentinel(raw)
    /\ result = JList(<<>>)

\* C4: get_page and get_block both return None for None, None for a mapping
\* with key `error` (whatever else it carries), else the value of key `result`
\* when present, else the mapping itself.
C4_SingleObjectPolicy ==
    (Completed /\ op \in SingleOps /\ (IsNone(raw) \/ IsDict(raw))) =>
        result = IF IsNone(raw) THEN JNull
                 ELSE IF Has(raw, "error") THEN JNull
                 ELSE IF Has(raw, "result") THEN raw.m["result"]
                 ELSE raw

\* C5: search_blocks returns the value of key `blocks` whenever the mapping
\* has one, also when it has a `result` key too, and returns a bare list as is.
C5_BlocksFirst ==
    (Completed /\ op = "search_blocks") =>
        /\ (IsDict(raw) /\ Has(raw, "blocks") => result = raw.m["blocks"])
        /\ (IsList(raw) => result = raw)

C5_Witness ==
    /\ Completed /\ op = "search_blocks"
    /\ IsDict(raw) /\ Has(raw, "blocks") /\ Has(raw, "result")
    /\ raw.m["blocks"] # raw.m["result"]
    /\ result = raw.m["blocks"]

\* C6: a mutation returns the value of key `result` when call_api returned a
\* mapping with that key, and otherwise returns what call_api returned: an
\* error mapping or the failure sentinel reaches the caller as it is.
C6_MutationsSurface ==
    (Completed /\ op \in MutationOps) =>
        /\ (HasResult(raw) => result = raw.m["result"])
        /\ (~HasResult(raw) => result = raw)
        /\ (TransportFailed => IsSentinel(result))
        /\ (IsDict(raw) /\ DOMAIN raw.m = {"error"} =>
              result = JDict("error" :> ErrorVal))

C6_Witness ==
    /\ Completed /\ op \in MutationOps
    /\ http.exc = "Timeout"
    /\ result = Sentinel("Timeout")

\* C7 as stated: after a transport failure nothing is raised, call_api returns
\* the failure sentinel, and every facade operation returns it too.
C7_SentinelEverywhere ==
    TransportFailed => ~raised /\ IsSentinel(raw) /\ IsSentinel(result)

\* C7 amended: after a transport failure nothing is raised and call_api returns
\* the failure sentinel; the mutations, get_current_graph and
\* get_block_properties return that sentinel, the list-shaped reads and
\* search_blocks return [], and get_page and get_block return None.
C7_SentinelOrAbsorbed ==
    TransportFailed =>
        /\ ~raised
        /\ IsSentinel(raw)
        /\ (op \in MutationOps \cup {"get_current_graph", "get_block_properties"}
              => result = raw)
        /\ (op \in ListOps \cup {"search_blocks"} => result = JList(<<>>))
        /\ (op \in SingleOps => result = JNull)

C7_Witness ==
    /\ TransportFailed /\ http.exc = "Timeout"
    /\ op = "get_page" /\ ~raised
    /\ IsSentinel(raw) /\ result = JNull

\* the POST insert_block issues for the arguments of the last call with the
\* flag negated
InsertBlockFlipped ==
    insert_block(call.parent_block_id, call.content, call.properties,
                 ~call.before, http).invokes[1].posts[1]

\* C8: insert_block sends a different method name for before=true than for
\* before=false and the same argument list; the flag is not among the arguments.
C8_FlagSelectsMethodOnly ==
    op = "insert_block" =>
        /\ request.method # InsertBlockFlipped.method
        /\ request.args = InsertBlockFlipped.args
        /\ request.method = IF call.before THEN "logseq.Editor.prependBlock"
                            ELSE "logseq.Editor.insertBlock"
        /\ \A i \in 1..Len(request.args.l) : request.args.l[i].t # "bool"

C8_Witness ==
    /\ op = "insert_block" /\ call.before
    /\ request.method = "logseq.Editor.prependBlock"
    /\ request.args = JList(<<call.parent_block_id, call.content, call.properties>>)
    /\ Truthy(call.properties)

\* C9: move_block sends exactly one argument, a mapping holding exactly the
\* source id, the target id and the child flag the caller gave.
C9_MoveBlockRecord ==
    op = "move_block" =>
        /\ IsList(request.args)
        /\ Len(request.args.l) = 1
        /\ IsDict(request.args.l[1])
        /\ DOMAIN request.args.l[1].m = {"srcUUID", "targetUUID", "isChild"}
        /\ request.args.l[1].m["srcUUID"] = call.block_id
        /\ request.args.l[1].m["targetUUID"] = call.target_block_id
        /\ request.args.l[1].m["isChild"] = JBool(call.as_child)

C9_Witness ==
    /\ op = "move_block" /\ call.as_child
    /\ call.block_id # call.target_block_id
    /\ request.args.l[1].m["isChild"] = JBool(TRUE)

\* C10: every operation makes exactly one call_api invocation, which issues at
\* most one POST, whatever the outcome; api_url and token stay as constructed.
C10_SingleRoundTrip ==
    /\ [][/\ nops' = nops + 1
          /\ ncalls' = ncalls + 1
          /\ nposts' \in {nposts, nposts + 1}
          /\ api_url' = api_url
          /\ token' = token]_vars
    /\ [](api_url = InitApiUrl(ctor, env) /\ token = InitToken(ctor, env))

C10_Witness ==
    /\ nops = 2 /\ ncalls = 2 /\ nposts = 2
    /\ TransportFailed
    /\ api_url = JStr("http://env:12315") /\ token = JStr("envtoken")

====
